---- MODULE Spec2Model ----
(***************************************************************************)
(* ClassRoomFinder: timetable extraction pipeline.                         *)
(*   src/extract_timetable.py  main extractor and batch runner             *)
(*   src/debug_tables.py       second revision of the extractor and runner  *)
(*   src/extract_all.py        batch loop over extract_timetable            *)
(* Python strings are modelled as sequences of one-character strings, so    *)
(* that splitting, parsing and formatting are computed, not assumed.        *)
(***************************************************************************)
EXTENDS Integers, Sequences, FiniteSets, TLC

VARIABLES
    \* one time token through both revisions of convert_to_24hr
    t_pc, t_in, t_out, t_dbg,
    \* one cell text through parse_cell_content and parse_cell
    c_pc, c_in, c_out, c_dbg,
    \* one page through the page loop body of extract_timetable and of
    \* extract_from_pdf; p_num is the page index, from 0
    p_pc, p_in, p_num, p_out, p_dbg,
    \* a batch run of one of the three scripts
    script,                 \* the script that runs
    n_files,                \* the number of PDF files in the folder
    file_idx,               \* the number of files the loop is done with
    pc,                     \* the position of the run
    page_num,               \* the index of the next page of the document
    pages_read,             \* pages read so far in the run
    all_schedule_entries,   \* the entries of the document being read
    timetable_data,         \* what the extractor returned to the loop
    fault,                  \* whether the document raised, and what it had produced
    all_extracted_data,     \* the accumulator across documents
    clean_entries,          \* the accumulator after the final filter
    unique_entries,         \* the result of clean_duplicates
    final_data,             \* the sorted result
    output,                 \* the output file
    log                     \* per finished document: accumulator before and after

varsTime == <<t_pc, t_in, t_out, t_dbg>>
varsCell == <<c_pc, c_in, c_out, c_dbg>>
varsPage == <<p_pc, p_in, p_num, p_out, p_dbg>>
varsBatch ==
    <<script, n_files, file_idx, pc, page_num, pages_read, all_schedule_entries,
      timetable_data, fault, all_extracted_data, clean_entries, unique_entries,
      final_data, output, log>>
vars == <<varsTime, varsCell, varsPage, varsBatch>>

\* ------------------------------------------------------------------ bounds
\* Largest hour value written in a time token handed to the normalizers.
MaxHour == 26
\* Largest number of lines of a generated cell text.
MaxLines == 3
\* Largest number of body rows of a generated table.
MaxRows == 2
\* Largest number of files in the folder of a batch run.
MaxDocs == 3
\* Largest number of pages read in a batch run, over all its documents.
MaxPages == 2
\* Largest number of leading zeros written in the suffix of a room token.
MaxZeros == 2

\* ------------------------------------------------------------ characters
DigitChars == <<"0", "1", "2", "3", "4", "5", "6", "7", "8", "9">>
UpperChars == <<"A", "B", "C", "D", "E", "F", "G", "H", "I", "J", "K", "L", "M",
                "N", "O", "P", "Q", "R", "S", "T", "U", "V", "W", "X", "Y", "Z">>
LowerChars == <<"a", "b", "c", "d", "e", "f", "g", "h", "i", "j", "k", "l", "m",
                "n", "o", "p", "q", "r", "s", "t", "u", "v", "w", "x", "y", "z">>

IsDigit(c) == \E i \in 1..10 : DigitChars[i] = c
DigitVal(c) == CHOOSE v \in 0..9 : DigitChars[v + 1] = c
IsLetter(c) == \E i \in 1..26 : UpperChars[i] = c \/ LowerChars[i] = c
\* \s of the regexes and the whitespace str.strip() removes
IsSpace(c) == c \in {" ", "\n"}
\* \w of the regexes
IsWordChar(c) == IsDigit(c) \/ IsLetter(c) \/ c = "_"

\* str.upper(), one character
UpperChar(c) ==
    IF \E i \in 1..26 : LowerChars[i] = c
    THEN UpperChars[CHOOSE i \in 1..26 : LowerChars[i] = c]
    ELSE c

\* str.upper()
Upper(s) == [i \in 1..Len(s) |-> UpperChar(s[i])]

\* ------------------------------------------------------------- str methods
RECURSIVE LStrip(_)
LStrip(s) ==
    IF s # <<>> /\ IsSpace(Head(s)) THEN LStrip(Tail(s)) ELSE s

RECURSIVE RStrip(_)
RStrip(s) ==
    IF s # <<>> /\ IsSpace(s[Len(s)]) THEN RStrip(SubSeq(s, 1, Len(s) - 1)) ELSE s

\* str.strip()
Strip(s) == RStrip(LStrip(s))

\* c in s, for a one-character c
HasChar(s, c) == \E i \in 1..Len(s) : s[i] = c

\* str.split(c), for a one-character separator c
RECURSIVE Split(_, _)
Split(s, c) ==
    IF ~HasChar(s, c) THEN <<s>>
    ELSE LET i == CHOOSE k \in 1..Len(s) :
                     s[k] = c /\ \A j \in 1..(k - 1) : s[j] # c
         IN <<SubSeq(s, 1, i - 1)>> \o Split(SubSeq(s, i + 1, Len(s)), c)

\* sub in s
Contains(s, sub) ==
    \E i \in 1..(Len(s) - Len(sub) + 1) : SubSeq(s, i, i + Len(sub) - 1) = sub

\* str.replace(c, ""), for a one-character c
RECURSIVE RemoveChar(_, _)
RemoveChar(s, c) ==
    IF s = <<>> THEN <<>>
    ELSE IF Head(s) = c THEN RemoveChar(Tail(s), c)
    ELSE <<Head(s)>> \o RemoveChar(Tail(s), c)

\* str.zfill(n), for an unsigned s
RECURSIVE ZFill(_, _)
ZFill(s, n) == IF Len(s) >= n THEN s ELSE ZFill(<<"0">> \o s, n)

\* ---------------------------------------------------------------- int()
AllDigits(s) == s # <<>> /\ \A i \in 1..Len(s) : IsDigit(s[i])

\* an optional sign, then digits
SignedDigits(b) ==
    \/ AllDigits(b)
    \/ b # <<>> /\ Head(b) \in {"-", "+"} /\ AllDigits(Tail(b))

\* int(s) does not raise ValueError: optional blanks, optional sign, digits
IntOk(s) == SignedDigits(Strip(s))

RECURSIVE DigitsVal(_)
DigitsVal(s) ==
    IF s = <<>> THEN 0 ELSE 10 * DigitsVal(SubSeq(s, 1, Len(s) - 1)) + DigitVal(s[Len(s)])

\* the value of an optional sign, then digits
SignedVal(b) ==
    IF Head(b) = "-" THEN 0 - DigitsVal(Tail(b))
    ELSE IF Head(b) = "+" THEN DigitsVal(Tail(b))
    ELSE DigitsVal(b)

\* int(s), where IntOk(s)
IntVal(s) == SignedVal(Strip(s))

\* str(n), n >= 0
RECURSIVE Decimal(_)
Decimal(n) ==
    IF n < 10 THEN <<DigitChars[n + 1]>>
    ELSE Decimal(n \div 10) \o <<DigitChars[(n % 10) + 1]>>

\* f"{n:02d}", n >= 0
Format02d(n) == ZFill(Decimal(n), 2)

\* ---------------------------------------------------------------- times
\* the unknown sentinel "Unknown"
Unknown == <<"U", "n", "k", "n", "o", "w", "n">>

\* time_str.split("-")[0] if "-" in time_str else time_str
BeforeDash(time_str) ==
    IF HasChar(time_str, "-") THEN Split(time_str, "-")[1] ELSE time_str

\* convert_to_24hr: hour += 12 if hour < 8
Hour24(hour) == IF hour < 8 THEN hour + 12 ELSE hour

\* extract_timetable.convert_to_24hr, from parts = time_str.split(':') on
ConvertParts(time_str, parts) ==
    IF Len(parts) = 2
    THEN IF IntOk(parts[1])
         THEN Format02d(Hour24(IntVal(parts[1]))) \o <<":">> \o parts[2]
         ELSE time_str
    ELSE ZFill(time_str, 5)

\* extract_timetable.convert_to_24hr, after the strip and the cut at "-"
ConvertCut(time_str) == ConvertParts(time_str, Split(time_str, ":"))

\* extract_timetable.convert_to_24hr
convert_to_24hr(time_str) == ConvertCut(BeforeDash(Strip(time_str)))

\* debug_tables.convert_to_24hr, from h, m = time_str.split(":") on
dbg_ConvertParts(parts) ==
    IF Len(parts) = 2 /\ IntOk(parts[1])
    THEN Format02d(Hour24(IntVal(parts[1]))) \o <<":">> \o parts[2]
    ELSE Unknown

\* debug_tables.convert_to_24hr
dbg_convert_to_24hr(time_str) ==
    dbg_ConvertParts(Split(BeforeDash(Strip(time_str)), ":"))

\* time_to_minutes: the range check and the result
MinutesOf(hours, minutes) ==
    IF hours < 0 \/ hours > 23 \/ minutes < 0 \/ minutes > 59
    THEN 0
    ELSE (hours * 60) + minutes

\* time_to_minutes, from time_parts = time_str.split(':') on
PartsMinutes(time_parts) ==
    IF Len(time_parts) < 2 \/ ~IntOk(time_parts[1]) \/ ~IntOk(time_parts[2])
    THEN 0
    ELSE MinutesOf(IntVal(time_parts[1]), IntVal(time_parts[2]))

\* extract_timetable.time_to_minutes
time_to_minutes(time_str) == PartsMinutes(Split(time_str, ":"))

\* ------------------------------------------------------------ re patterns
\* A pattern is a sequence of elements: a literal, or a greedy repetition
\* {lo,hi} of a character class.  An alternation is a sequence of patterns.
Many == 99

Lit(v) == [t |-> "lit", v |-> v, cls |-> "", lo |-> 0, hi |-> 0]
Rep(cls, lo, hi) == [t |-> "rep", v |-> <<>>, cls |-> cls, lo |-> lo, hi |-> hi]

ClassHas(cls, c) ==
    CASE cls = "space" -> IsSpace(c)
      [] cls = "digit" -> IsDigit(c)
      [] cls = "letter" -> IsLetter(c)
      [] cls = "upper" -> \E i \in 1..26 : UpperChars[i] = c
      [] cls = "zero" -> c = "0"
      [] cls = "dashspace" -> c = "-" \/ IsSpace(c)
      [] cls = "secchar" -> IsDigit(c) \/ IsLetter(c) \/ c = "-"
      [] cls = "notsep" -> c \notin {"\n", ",", ";"}
      [] cls = "nottime" -> ~(IsDigit(c) \/ c \in {"\n", ":", ";"})
      [] OTHER -> FALSE

\* length of the run of cls characters from position i, hi at most
RECURSIVE RunLen(_, _, _, _)
RunLen(s, i, cls, hi) ==
    IF hi = 0 \/ i > Len(s) \/ ~ClassHas(cls, s[i]) THEN 0
    ELSE 1 + RunLen(s, i + 1, cls, hi - 1)

\* the positions after a match of pat that starts at i, in the order the
\* backtracking matcher tries them (greedy first); ic is re.IGNORECASE
RECURSIVE Ends(_, _, _, _)
RECURSIVE RepEnds(_, _, _, _, _, _)
Ends(s, i, pat, ic) ==
    IF pat = <<>> THEN <<i>>
    ELSE LET e == Head(pat)
         IN  IF e.t = "lit"
             THEN IF i + Len(e.v) - 1 <= Len(s)
                     /\ LET sub == SubSeq(s, i, i + Len(e.v) - 1)
                        IN  (IF ic THEN Upper(sub) ELSE sub) = e.v
                  THEN Ends(s, i + Len(e.v), Tail(pat), ic)
                  ELSE <<>>
             ELSE RepEnds(s, i, RunLen(s, i, e.cls, e.hi), e.lo, Tail(pat), ic)
RepEnds(s, i, n, lo, rest, ic) ==
    IF n < lo THEN <<>>
    ELSE Ends(s, i + n, rest, ic) \o RepEnds(s, i, n - 1, lo, rest, ic)

\* \b between s[i-1] and s[i]
Boundary(s, i) ==
    LET before == i > 1 /\ i - 1 <= Len(s) /\ IsWordChar(s[i - 1])
        after == i >= 1 /\ i <= Len(s) /\ IsWordChar(s[i])
    IN  before # after

NoMatch == [start |-> 0, end |-> 0, alt |-> 0]

\* the ends among es that satisfy the trailing \b (wbEnd) or $ (eos)
AcceptedEnds(s, es, wbEnd, eos) ==
    LET Ok(e) == (wbEnd => Boundary(s, e)) /\ (eos => e = Len(s) + 1)
    IN  SelectSeq(es, Ok)

\* the match of alternative k at i with accepted ends es, or else other
MatchOr(es, i, k, other) ==
    IF es # <<>> THEN [start |-> i, end |-> es[1], alt |-> k] ELSE other

\* the match the matcher reports at position i: the first alternative, in
\* order, with an accepted end
RECURSIVE MatchAt(_, _, _, _, _, _, _)
MatchAt(s, i, alts, k, ic, wbEnd, eos) ==
    IF k > Len(alts) THEN NoMatch
    ELSE MatchOr(AcceptedEnds(s, Ends(s, i, alts[k], ic), wbEnd, eos), i, k,
                 MatchAt(s, i, alts, k + 1, ic, wbEnd, eos))

\* pattern.findall / finditer: leftmost, non-overlapping matches
RECURSIVE Scan(_, _, _, _, _, _)
RECURSIVE ScanOn(_, _, _, _, _, _, _)
Scan(s, i, alts, ic, wbStart, wbEnd) ==
    IF i > Len(s) THEN <<>>
    ELSE ScanOn(s, i, IF wbStart /\ ~Boundary(s, i) THEN NoMatch
                      ELSE MatchAt(s, i, alts, 1, ic, wbEnd, FALSE),
                alts, ic, wbStart, wbEnd)
\* m is the match at i, or NoMatch
ScanOn(s, i, m, alts, ic, wbStart, wbEnd) ==
    IF m = NoMatch THEN Scan(s, i + 1, alts, ic, wbStart, wbEnd)
    ELSE <<m>> \o Scan(s, IF m.end > i THEN m.end ELSE i + 1,
                       alts, ic, wbStart, wbEnd)

FindAll(s, alts, ic, wbStart, wbEnd) == Scan(s, 1, alts, ic, wbStart, wbEnd)

\* the text of a match
Group0(s, m) == SubSeq(s, m.start, m.end - 1)

\* re.match(pattern + "$", s)
FullMatch(s, alts, ic) == MatchAt(s, 1, alts, 1, ic, FALSE, TRUE) # NoMatch

\* ------------------------------------------------------------ vocabulary
\* the words of the patterns and of the texts the code compares and writes,
\* as sequences of characters
Word ==
    [ TCS |-> <<"T", "C", "S">>,
      PCS |-> <<"P", "C", "S">>,
      MCS |-> <<"M", "C", "S">>,
      XCS |-> <<"X", "C", "S">>,
      DTCS |-> <<"D", "T", "C", "S">>,
      DPCS |-> <<"D", "P", "C", "S">>,
      TMA |-> <<"T", "M", "A">>,
      PESE |-> <<"P", "E", "S", "E">>,
      CEC |-> <<"C", "E", "C">>,
      ELECTIVE |-> <<"E", "L", "E", "C", "T", "I", "V", "E">>,
      PROJECT |-> <<"P", "R", "O", "J", "E", "C", "T">>,
      BASED |-> <<"B", "A", "S", "E", "D">>,
      LEARNING |-> <<"L", "E", "A", "R", "N", "I", "N", "G">>,
      PROJECTBASEDLEARNING |-> <<"P", "R", "O", "J", "E", "C", "T", "B", "A", "S",
                                 "E", "D", "L", "E", "A", "R", "N", "I", "N", "G">>,
      CR |-> <<"C", "R">>,
      LT |-> <<"L", "T">>,
      LAB |-> <<"L", "A", "B">>,
      TCL |-> <<"T", "C", "L">>,
      VENUE |-> <<"V", "E", "N", "U", "E">>,
      UBUNTU |-> <<"U", "B", "U", "N", "T", "U">>,
      AUDI |-> <<"A", "U", "D", "I">>,
      BASEMENT |-> <<"B", "A", "S", "E", "M", "E", "N", "T">>,
      GCLAB |-> <<"G", "C", "L", "A", "B">>,
      LOGIC |-> <<"L", "O", "G", "I", "C">>,
      LOGICLAB |-> <<"L", "O", "G", "I", "C", "L", "A", "B">>,
      UBUNTULAB |-> <<"U", "B", "U", "N", "T", "U", "L", "A", "B">>,
      MON |-> <<"M", "O", "N">>,
      TUE |-> <<"T", "U", "E">>,
      WED |-> <<"W", "E", "D">>,
      THU |-> <<"T", "H", "U">>,
      FRI |-> <<"F", "R", "I">>,
      SAT |-> <<"S", "A", "T">>,
      Page_ |-> <<"P", "a", "g", "e", "_">>,
      Course_Page_ |-> <<"C", "o", "u", "r", "s", "e", "_", "P", "a", "g", "e", "_">> ]

\* parse_cell_content: subject_pattern, between \b and \b, IGNORECASE
subject_pattern ==
    <<  <<Lit(Word.TCS), Rep("space", 0, 1), Rep("digit", 3, 4)>>,
        <<Lit(Word.PCS), Rep("space", 0, 1), Rep("digit", 3, 4)>>,
        <<Lit(Word.MCS), Rep("space", 0, 1), Rep("digit", 3, 4)>>,
        <<Lit(Word.XCS), Rep("space", 0, 1), Rep("digit", 3, 4)>>,
        <<Lit(Word.DTCS), Rep("space", 0, 1), Rep("digit", 3, 4)>>,
        <<Lit(Word.DPCS), Rep("space", 0, 1), Rep("digit", 3, 4)>>,
        <<Lit(Word.TMA), Rep("space", 0, 1), Rep("digit", 3, 4)>>,
        <<Lit(Word.PESE), Rep("space", 0, 1), Rep("digit", 3, 4)>>,
        <<Lit(Word.CEC)>>,
        <<Lit(Word.ELECTIVE)>>,
        <<Lit(Word.PROJECT), Rep("space", 1, 1), Lit(Word.BASED), Rep("space", 1, 1),
          Lit(Word.LEARNING)>>  >>

\* parse_cell_content: room_pattern, between \b and \b, IGNORECASE
room_pattern ==
    LET room_tail == <<Rep("space", 0, 1), Rep("digit", 1, 3), Rep("letter", 0, 1)>>
    IN
    <<  <<Lit(Word.CR)>> \o room_tail,
        <<Lit(Word.LT)>> \o room_tail,
        <<Lit(Word.LAB)>> \o room_tail,
        <<Lit(Word.TCL)>> \o room_tail,
        <<Lit(Word.VENUE)>> \o room_tail,
        <<Lit(Word.UBUNTU), Rep("space", 0, 1), Lit(Word.LAB)>> \o room_tail,
        <<Lit(Word.AUDI)>> \o room_tail,
        <<Lit(Word.BASEMENT)>> \o room_tail  >>

\* parse_cell_content: the second-chance room pattern, after \b, IGNORECASE
potential_room_pattern ==
    LET potential_room_tail == <<Rep("space", 0, Many), Rep("digit", 1, Many)>>
    IN
    <<  <<Lit(Word.CR)>> \o potential_room_tail,
        <<Lit(Word.LT)>> \o potential_room_tail,
        <<Lit(Word.LAB)>> \o potential_room_tail,
        <<Lit(Word.TCL)>> \o potential_room_tail,
        <<Lit(Word.UBUNTU)>> \o potential_room_tail  >>

\* parse_cell_content: ^[A-Z]{3}\d{3,4}$
specific_pattern == << <<Rep("upper", 3, 3), Rep("digit", 3, 4)>> >>

\* [g.upper().replace(" ", "") for g in ms], ms being matches in line
CanonicalOf(line, ms) ==
    [k \in 1..Len(ms) |-> RemoveChar(Upper(Group0(line, ms[k])), " ")]

\* [g.upper().replace(" ", "") for g in pattern.findall(line)]
Canonical(line, alts, wbEnd) ==
    CanonicalOf(line, FindAll(line, alts, TRUE, TRUE, wbEnd))

\* the flattening of a sequence of sequences
RECURSIVE Flatten(_)
Flatten(ss) == IF ss = <<>> THEN <<>> ELSE Head(ss) \o Flatten(Tail(ss))

\* the order-preserving removal of repeated elements
RECURSIVE Unique(_, _)
Unique(s, seen) ==
    IF s = <<>> THEN <<>>
    ELSE IF Head(s) \in seen THEN Unique(Tail(s), seen)
    ELSE <<Head(s)>> \o Unique(Tail(s), seen \cup {Head(s)})

\* [line.strip() for line in raw if line.strip()]
StrippedLines(raw) ==
    LET NonEmpty(l) == l # <<>>
    IN  SelectSeq([k \in 1..Len(raw) |-> Strip(raw[k])], NonEmpty)

\* [line.strip() for line in content.split('\n') if line.strip()]
CellLines(content) == StrippedLines(Split(content, "\n"))

\* rooms[0] if rooms else "Unknown"
FirstRoom(rooms) == IF rooms # <<>> THEN rooms[1] ELSE Unknown

\* parse_cell_content: the loop that pairs each subject with rooms[0] and
\* pops the head of rooms while more than one room is left
RECURSIVE PairRooms(_, _)
PairRooms(subjects, rooms) ==
    IF subjects = <<>> THEN <<>>
    ELSE <<[subjectCode |-> Head(subjects), room |-> FirstRoom(rooms)]>>
         \o PairRooms(Tail(subjects), IF Len(rooms) > 1 THEN Tail(rooms) ELSE rooms)

special_cases == <<Word.PROJECTBASEDLEARNING, Word.ELECTIVE, Word.CEC>>

\* the specific subject codes among subjects: ^[A-Z]{3}\d{3,4}$
SpecificSubjects(subjects) ==
    LET IsSpecific(x) == FullMatch(x, specific_pattern, FALSE)
    IN  SelectSeq(subjects, IsSpecific)

\* specific_subjects if specific_subjects else subjects
SpecificOrAll(specific_subjects, subjects) ==
    IF specific_subjects # <<>> THEN specific_subjects ELSE subjects

\* parse_cell_content: the subjects kept, specific codes ahead of generic ones
SubjectsToUse(subjects) == SpecificOrAll(SpecificSubjects(subjects), subjects)

\* what a pattern finds on the lines, in order
LineMatches(lines, alts, wbEnd) ==
    Flatten([k \in 1..Len(lines) |-> Canonical(lines[k], alts, wbEnd)])

\* parse_cell_content: the rooms, with the second chance when a block has
\* subjects and no room
RoomsFor(lines, subjects, rooms) ==
    IF subjects # <<>> /\ rooms = <<>>
    THEN LineMatches(lines, potential_room_pattern, FALSE)
    ELSE rooms

\* parse_cell_content: the branch without subjects, hits being the special
\* cases found in the text
SpecialEntry(hits, rooms) ==
    IF hits # <<>>
    THEN <<[subjectCode |-> hits[1], room |-> FirstRoom(rooms)]>>
    ELSE <<>>

\* the special cases that occur in content_upper
SpecialHits(content_upper) ==
    LET Hit(c) == Contains(content_upper, c)
    IN  SelectSeq(special_cases, Hit)

\* parse_cell_content: the entries, from the subjects and rooms found
CellResult(content, lines, subjects, rooms) ==
    IF content = <<>> \/ lines = <<>> THEN <<>>
    ELSE IF subjects # <<>>
    THEN PairRooms(Unique(SubjectsToUse(subjects), {}), rooms)
    ELSE SpecialEntry(SpecialHits(RemoveChar(Upper(content), " ")), rooms)

\* parse_cell_content, from the subjects found on
ParseSubjects(content, lines, subjects) ==
    CellResult(content, lines, subjects,
               RoomsFor(lines, subjects, LineMatches(lines, room_pattern, TRUE)))

\* parse_cell_content, from the lines on
ParseLines(content, lines) ==
    ParseSubjects(content, lines, LineMatches(lines, subject_pattern, TRUE))

\* extract_timetable.parse_cell_content
parse_cell_content(content) == ParseLines(content, CellLines(content))

\* ----------------------------------------------------- debug_tables parser
\* str.replace(sub, ""), for a non-empty sub
RECURSIVE RemoveSub(_, _)
RemoveSub(s, sub) ==
    IF Len(s) < Len(sub) THEN s
    ELSE IF SubSeq(s, 1, Len(sub)) = sub
    THEN RemoveSub(SubSeq(s, Len(sub) + 1, Len(s)), sub)
    ELSE <<Head(s)>> \o RemoveSub(Tail(s), sub)

\* normalize_room: re.match(prefix + r"0?(\d+)$", r) succeeds
FamilyMatch(r, prefix) ==
    FullMatch(r, << <<Lit(prefix), Rep("zero", 0, 1), Rep("digit", 1, Many)>> >>, FALSE)

\* normalize_room: group 1 of that match.  0? takes one leading zero when
\* at least one digit is left for (\d+), which then takes all the rest.
FamilyGroup(r, prefix) ==
    LET rest == SubSeq(r, Len(prefix) + 1, Len(r))
    IN  IF Head(rest) = "0" /\ Len(rest) >= 2 THEN Tail(rest) ELSE rest

\* normalize_room: r = raw.upper() without " ", "-" and "_"
RoomKey(raw) == RemoveChar(RemoveChar(RemoveChar(Upper(raw), " "), "-"), "_")

\* normalize_room: the LOGICLAB branch, num being re.search(r"\d+", rest)
LogicLabOf(rest, num) ==
    IF num # <<>> THEN Word.LOGICLAB \o Group0(rest, num[1]) ELSE Word.LOGICLAB

\* normalize_room: the LOGICLAB branch, rest being r without "LOGICLAB"
LogicLabRoom(rest) ==
    LogicLabOf(rest, FindAll(rest, << <<Rep("digit", 1, Many)>> >>, FALSE, FALSE, FALSE))

\* normalize_room: the chain of families tried on r
NormalizeKey(r) ==
    IF FamilyMatch(r, Word.LAB) THEN Word.LAB \o FamilyGroup(r, Word.LAB)
    ELSE IF FamilyMatch(r, Word.TCL) THEN Word.TCL \o FamilyGroup(r, Word.TCL)
    ELSE IF FamilyMatch(r, Word.UBUNTULAB)
    THEN Word.UBUNTULAB \o FamilyGroup(r, Word.UBUNTULAB)
    ELSE IF FamilyMatch(r, Word.GCLAB) THEN Word.GCLAB \o FamilyGroup(r, Word.GCLAB)
    ELSE IF Contains(r, Word.LOGICLAB) THEN LogicLabRoom(RemoveSub(r, Word.LOGICLAB))
    ELSE r

\* debug_tables.normalize_room
normalize_room(raw) == IF raw = <<>> THEN <<>> ELSE NormalizeKey(RoomKey(raw))

\* parse_cell: the prefixes of subj_regex, in the order of its alternation
subj_prefixes ==
    <<Word.TCS, Word.PCS, Word.MCS, Word.XCS, Word.DPCS, Word.DTCS, Word.PESE, Word.TMA>>

\* parse_cell: subj_regex, IGNORECASE, no \b
subj_regex ==
    [k \in 1..Len(subj_prefixes) |->
        <<Lit(subj_prefixes[k]), Rep("space", 0, Many), Rep("digit", 3, 4)>>]

\* parse_cell: room_regex, IGNORECASE, no \b
room_regex ==
    <<  <<Lit(Word.CR), Rep("dashspace", 0, 1), Rep("digit", 2, 3)>>,
        <<Lit(Word.LT), Rep("dashspace", 0, 1), Rep("digit", 2, 3)>>,
        <<Lit(Word.LAB), Rep("dashspace", 0, 1), Rep("digit", 1, 3)>>,
        <<Lit(Word.UBUNTU), Rep("dashspace", 0, 1), Lit(Word.LAB), Rep("space", 0, Many),
          Rep("digit", 1, Many)>>,
        <<Lit(Word.TCL), Rep("space", 0, Many), Rep("digit", 1, Many)>>,
        <<Lit(Word.GCLAB), Rep("space", 0, Many), Rep("digit", 1, Many)>>,
        <<Lit(Word.LOGIC), Rep("space", 0, Many), Lit(Word.LAB), Rep("space", 0, Many),
          Rep("digit", 1, Many)>>  >>

\* parse_cell: rooms[i] if i < len(rooms) else (rooms[0] if rooms else "Unknown")
AttachRooms(subjects, rooms) ==
    [i \in 1..Len(subjects) |->
        [subjectCode |-> subjects[i],
         room |-> IF i <= Len(rooms) THEN rooms[i]
                  ELSE IF rooms # <<>> THEN rooms[1] ELSE Unknown]]

\* parse_cell: what findall gives for one match of subj_regex, group 1 of
\* the match: the prefix alone, upper-cased
PrefixOf(cell_text, m) ==
    Upper(RemoveChar(
        SubSeq(cell_text, m.start, m.start + Len(subj_prefixes[m.alt]) - 1), " "))

\* parse_cell: the subjects found by subj_regex
FoundSubjects(cell_text, ms) == [k \in 1..Len(ms) |-> PrefixOf(cell_text, ms[k])]

\* parse_cell: the keyword subjects, up being cell_text.upper()
KeywordSubjects(up) ==
    IF Contains(up, Word.ELECTIVE) THEN <<Word.ELECTIVE>>
    ELSE IF Contains(up, Word.CEC) THEN <<Word.CEC>>
    ELSE IF Contains(up, Word.PROJECT) THEN <<Word.PROJECTBASEDLEARNING>>
    ELSE <<>>

\* parse_cell: the subjects of a cell
SubjectsOf(found, up) == IF found # <<>> THEN found ELSE KeywordSubjects(up)

\* parse_cell: [normalize_room(r) for r in room_regex.findall(cell_text)]
FoundRooms(cell_text, rs) ==
    [k \in 1..Len(rs) |-> normalize_room(Group0(cell_text, rs[k]))]

\* parse_cell, cell_text being the stripped text
ParseStripped(cell_text) ==
    IF cell_text = <<>> THEN <<>>
    ELSE AttachRooms(
            SubjectsOf(FoundSubjects(cell_text,
                                     FindAll(cell_text, subj_regex, TRUE, FALSE, FALSE)),
                       Upper(cell_text)),
            FoundRooms(cell_text, FindAll(cell_text, room_regex, TRUE, FALSE, FALSE)))

\* debug_tables.parse_cell
parse_cell(raw_text) == ParseStripped(Strip(raw_text))

\* --------------------------------------------------- tables and page text
\* A cell is a text or None; a row is a sequence of cells; a table is a
\* sequence of rows; a page is [text, tables].  Python index i is index i + 1.
None == <<"<None>">>
\* bool(cell)
Truthy(cell) == cell # None /\ cell # <<>>
\* str(cell)
Str(cell) == IF cell = None THEN <<"N", "o", "n", "e">> ELSE cell
\* cell or ""
OrEmpty(cell) == IF cell = None THEN <<>> ELSE cell

\* the first of the matches ms, or NoMatch
FirstMatch(ms) == IF ms = <<>> THEN NoMatch ELSE ms[1]

\* pattern.search: the leftmost match, or NoMatch
Search(s, alts, ic) == FirstMatch(FindAll(s, alts, ic, FALSE, FALSE))

\* the first of the positions starts from which grp matches
GroupStart(s, starts, grp, ic) ==
    LET Ok(g) == Ends(s, g, grp, ic) # <<>>
    IN  SelectSeq(starts, Ok)[1]

\* the text grp matches at g, greedily
GroupText(s, g, grp, ic) == SubSeq(s, g, Ends(s, g, grp, ic)[1] - 1)

\* the text of the group grp that ends a pattern pre + grp matched at i: the
\* matcher keeps the first end of pre from which grp matches
Capture(s, i, pre, grp, ic) ==
    GroupText(s, GroupStart(s, Ends(s, i, pre, ic), grp, ic), grp, ic)

\* (\d{1,2}:\d{2})
time_token == <<Rep("digit", 1, 2), Lit(<<":">>), Rep("digit", 2, 2)>>
\* (\d{1,2}:\d{2})\s*-\s*(\d{1,2}:\d{2})
range_pattern ==
    << time_token \o <<Rep("space", 0, Many), Lit(<<"-">>), Rep("space", 0, Many)>>
       \o time_token >>

\* the two sides of "a - b", stripped
StripPair(parts) == <<Strip(parts[1]), Strip(parts[2])>>

\* groups 1 and 2 of a range_pattern match
RangeGroups(s, m) == StripPair(Split(Group0(s, m), "-"))

\* (convert_to_24hr(start), convert_to_24hr(end))
ConvertPair(pair) == <<convert_to_24hr(pair[1]), convert_to_24hr(pair[2])>>

\* the col_time_map entry a range_pattern match gives
RangeSlot(s, m) == ConvertPair(RangeGroups(s, m))

\* a column without an entry in col_time_map
NoSlot == <<>>

\* extract_timetable: a header cell with one time, em being the match of a
\* time in the cell below it
SplitSlot(text, tm, next_cell, em) ==
    IF em # NoMatch
    THEN <<convert_to_24hr(Group0(text, tm)), convert_to_24hr(Group0(next_cell, em))>>
    ELSE NoSlot

\* extract_timetable: a header cell with one time; next_cell is the cell
\* below it
BelowSlot(text, tm, next_cell) ==
    SplitSlot(text, tm, next_cell, Search(next_cell, <<time_token>>, FALSE))

\* extract_timetable: a header cell without a range; tm is the match of a
\* single time
SingleSlot(table, c, text, tm) ==
    IF tm # NoMatch /\ Len(table) > 1 /\ c <= Len(table[2])
    THEN BelowSlot(text, tm, OrEmpty(table[2][c]))
    ELSE NoSlot

\* extract_timetable: a header cell with a colon; rm is the match of a range
TextSlot(table, c, text, rm) ==
    IF rm # NoMatch THEN RangeSlot(text, rm)
    ELSE SingleSlot(table, c, text, Search(text, <<time_token>>, FALSE))

\* extract_timetable: the col_time_map entry one header cell gives
HeaderSlot(table, c) ==
    IF ~(Truthy(table[1][c]) /\ HasChar(Str(table[1][c]), ":")) THEN NoSlot
    ELSE TextSlot(table, c, Str(table[1][c]),
                  Search(Str(table[1][c]), range_pattern, FALSE))

\* extract_timetable: the fallback, time_ranges being the ranges found in the
\* page text
FallbackSlots(time_headers, page_text, time_ranges) ==
    [c \in 1..Len(time_headers) |->
        IF time_ranges # <<>> /\ Len(time_ranges) >= Len(time_headers) - 1
           /\ c >= 2 /\ c <= Len(time_headers) /\ c <= Len(time_ranges) + 1
        THEN RangeSlot(page_text, time_ranges[c - 1])
        ELSE NoSlot]

\* extract_timetable: col_time_map from the page text, when the header gave none
FallbackMap(time_headers, page_text) ==
    FallbackSlots(time_headers, page_text,
                  FindAll(page_text, range_pattern, FALSE, FALSE, FALSE))

\* extract_timetable: if not col_time_map, the fallback
HeaderOr(from_header, table, page_text) ==
    IF \A c \in DOMAIN from_header : from_header[c] = NoSlot
    THEN FallbackMap(table[1], page_text)
    ELSE from_header

\* extract_timetable: col_time_map of a table
ColTimeMap(table, page_text) ==
    HeaderOr([c \in 1..Len(table[1]) |-> HeaderSlot(table, c)], table, page_text)

\* col_idx in col_time_map
InMap(map, c) == c \in DOMAIN map /\ map[c] # NoSlot
\* col_time_map.get(col_idx, ("Unknown", "Unknown"))
MapGet(map, c) == IF InMap(map, c) THEN map[c] ELSE <<Unknown, Unknown>>

Days == <<Word.MON, Word.TUE, Word.WED, Word.THU, Word.FRI, Word.SAT>>
NoDay == <<>>

\* the first of the days found, or None
FirstDay(found) == IF found = <<>> THEN NoDay ELSE found[1]

\* next((d for d in Days if d in day_text), None)
DayOf(day_text) ==
    LET In(d) == Contains(day_text, d)
    IN  FirstDay(SelectSeq(Days, In))

\* extract_timetable: the number of empty cells that directly follow column c
RECURSIVE EmptyRun(_, _)
EmptyRun(row, n) ==
    IF n <= Len(row) /\ (row[n] = None \/ Strip(row[n]) = <<>>)
    THEN 1 + EmptyRun(row, n + 1)
    ELSE 0

\* extract_timetable: end_time of a cell that spans span columns from c
EndTime(map, c, span) ==
    IF span > 1 /\ InMap(map, c + span - 1)
    THEN map[c + span - 1][2]
    ELSE MapGet(map, c)[2]

\* the entries of a cell, from the entries its parser returns
Timed(section, day, start_time, end_time, parsed_entries) ==
    [k \in 1..Len(parsed_entries) |->
        [section |-> section, day |-> day,
         startTime |-> start_time, endTime |-> end_time,
         subjectCode |-> parsed_entries[k].subjectCode,
         room |-> parsed_entries[k].room]]

\* extract_timetable: the entries of one body cell
CellEntries(section, day, row, c, map) ==
    IF ~Truthy(row[c]) \/ Strip(row[c]) = <<>> THEN <<>>
    ELSE Timed(section, day, MapGet(map, c)[1],
               EndTime(map, c, 1 + EmptyRun(row, c + 1)),
               parse_cell_content(row[c]))

\* extract_timetable: the entries of one body row whose day is known; the
\* handler of the inner try skips the cells of the columns in skipped, whose
\* processing raises
DayEntries(section, day, row, map, skipped) ==
    IF day = NoDay THEN <<>>
    ELSE Flatten([k \in 1..(Len(row) - 1) |->
                    IF (k + 1) \in skipped THEN <<>>
                    ELSE CellEntries(section, day, row, k + 1, map)])

\* extract_timetable: the entries of one body row
RowEntries(section, row, map, skipped) ==
    IF row = <<>> THEN <<>>
    ELSE DayEntries(section, DayOf(Upper(OrEmpty(row[1]))), row, map, skipped)

\* "Section:\s*([A-Za-z0-9-]+)", IGNORECASE
\* pre is the part before the group, grp the group
section_pattern ==
    [pre |-> <<Lit(<<"S", "E", "C", "T", "I", "O", "N", ":">>), Rep("space", 0, Many)>>,
     grp |-> <<Rep("secchar", 1, Many)>>]
\* "Course Name:\s*([^\n\r,;]+)", IGNORECASE
course_pattern ==
    [pre |-> <<Lit(<<"C", "O", "U", "R", "S", "E", " ", "N", "A", "M", "E", ":">>),
               Rep("space", 0, Many)>>,
     grp |-> <<Rep("notsep", 1, Many)>>]

\* the texts that mark timetable data caught in a course name
indicators ==
    << <<"S", "e", "m", "e", "s", "t", "e", "r", ":">>,
       <<"w", ".", " ", "e", ".", " ", "f", ".", ":">>,
       <<"T", "I", "M", "E">>,
       <<"D", "A", "Y", "/">>,
       <<"0", "8", ":">> >>


\* extract_timetable: a course name that holds timetable data; clean is the
\* length of its part before the first digit, colon or dash
CleanCourse(course_name, clean, page_no) ==
    IF clean > 0 THEN Strip(SubSeq(course_name, 1, clean))
    ELSE Word.Course_Page_ \o Decimal(page_no + 1)

\* extract_timetable: the section a course name gives
CourseSection(course_name, page_no) ==
    LET Marks(ind) == Contains(course_name, ind)
    IN  IF SelectSeq(indicators, Marks) # <<>>
        THEN CleanCourse(course_name, RunLen(course_name, 1, "nottime", Many), page_no)
        ELSE course_name

\* extract_timetable: the section, from the matches of the two patterns
SectionOf(page_text, page_no, sm, cm) ==
    IF sm # NoMatch
    THEN Strip(Capture(page_text, sm.start, section_pattern.pre, section_pattern.grp, TRUE))
    ELSE IF cm # NoMatch
    THEN CourseSection(
            Strip(Capture(page_text, cm.start, course_pattern.pre, course_pattern.grp, TRUE)),
            page_no)
    ELSE Word.Page_ \o Decimal(page_no + 1)

\* extract_timetable: the section of a page; page_no counts from 0
PageSection(page_text, page_no) ==
    SectionOf(page_text, page_no,
              Search(page_text, <<section_pattern.pre \o section_pattern.grp>>, TRUE),
              Search(page_text, <<course_pattern.pre \o course_pattern.grp>>, TRUE))

\* the columns of body row k among the cells bad, given as <<row, column>>
ColumnsOf(bad, k) == {x[2] : x \in {y \in bad : y[1] = k}}

\* extract_timetable: the entries of the rows below the header
TableEntries(section, table, map, bad) ==
    Flatten([k \in 1..(Len(table) - 1) |->
                RowEntries(section, table[k + 1], map, ColumnsOf(bad, k))])

\* extract_timetable: the entries one page adds to all_schedule_entries when
\* the processing of the cells in bad raises inside the inner try
PageEntriesSkipping(page, page_no, bad) ==
    IF page.tables = <<>> THEN <<>>
    ELSE IF page.tables[1] = <<>> \/ Len(page.tables[1]) < 2 THEN <<>>
    ELSE TableEntries(PageSection(page.text, page_no), page.tables[1],
                      ColTimeMap(page.tables[1], page.text), bad)

\* extract_timetable: the entries one page adds when no cell raises
PageEntries(page, page_no) == PageEntriesSkipping(page, page_no, {})

\* extract_timetable: the columns of a body row at which the inner try is
\* entered
TryColumns(row) ==
    {c \in 2..Len(row) : Truthy(row[c]) /\ Strip(row[c]) # <<>>}

\* extract_timetable: the body rows whose cells are processed
DayRows(table) ==
    {k \in 1..(Len(table) - 1) :
        table[k + 1] # <<>> /\ DayOf(Upper(OrEmpty(table[k + 1][1]))) # NoDay}

\* extract_timetable: the cells <<row, column>> of a page at which the inner
\* try is entered
TryCells(page) ==
    IF page.tables = <<>> THEN {}
    ELSE IF page.tables[1] = <<>> \/ Len(page.tables[1]) < 2 THEN {}
    ELSE UNION {{<<k, c>> : c \in TryColumns(page.tables[1][k + 1])} :
                    k \in DayRows(page.tables[1])}

\* ----------------------------------------------- debug_tables, page level
\* " ".join(str(x) for x in row)
RECURSIVE JoinCells(_)
JoinCells(row) ==
    IF row = <<>> THEN <<>>
    ELSE IF Len(row) = 1 THEN Str(row[1])
    ELSE Str(row[1]) \o <<" ">> \o JoinCells(Tail(row))

keywords ==
    <<Word.MON, Word.TUE, Word.WED, Word.THU, Word.FRI, Word.SAT, <<"D", "A", "Y">>,
      <<":", "0", "0">>, <<":", "5", "5">>, <<":", "5", "0">>, <<"-">> >>

\* is_real_timetable: at least two keywords in the header row
HasKeywords(header_row) ==
    LET In(k) == Contains(header_row, k)
    IN  Len(SelectSeq(keywords, In)) >= 2

\* debug_tables.is_real_timetable
is_real_timetable(table) ==
    Len(table) >= 2 /\ HasKeywords(Upper(JoinCells(table[1])))

\* extract_from_pdf: the time_map entry of a cell with the time tokens m
dbg_TokensSlot(cell, m) ==
    IF Len(m) >= 2
    THEN <<dbg_convert_to_24hr(Group0(cell, m[1])),
           dbg_convert_to_24hr(Group0(cell, m[2]))>>
    ELSE NoSlot

\* extract_from_pdf: the time_map entry one header cell gives
dbg_HeaderSlot(cell) ==
    IF Truthy(cell) /\ HasChar(cell, ":")
    THEN dbg_TokensSlot(cell, FindAll(cell, <<time_token>>, FALSE, FALSE, FALSE))
    ELSE NoSlot

\* extract_from_pdf: the entries of one body cell
dbg_CellEntries(section, day, row, c, map) ==
    IF ~Truthy(row[c]) \/ Strip(row[c]) = <<>> THEN <<>>
    ELSE Timed(section, day, MapGet(map, c)[1], MapGet(map, c)[2], parse_cell(row[c]))

\* extract_from_pdf: the entries of one body row whose day is known
dbg_DayEntries(section, day, row, map) ==
    IF day = NoDay THEN <<>>
    ELSE Flatten([k \in 1..(Len(row) - 1) |->
                    dbg_CellEntries(section, day, row, k + 1, map)])

\* extract_from_pdf: the entries of one body row
dbg_RowEntries(section, row, map) ==
    dbg_DayEntries(section, DayOf(Upper(Str(row[1]))), row, map)

\* extract_from_pdf: the entries of a timetable table with the time_map map
dbg_MapEntries(section, table, map) ==
    Flatten([k \in 1..(Len(table) - 1) |->
                dbg_RowEntries(section, table[k + 1], map)])

\* extract_from_pdf: the entries of one table
dbg_TableEntries(section, table) ==
    IF ~is_real_timetable(table) THEN <<>>
    ELSE dbg_MapEntries(section, table,
                        [c \in 1..Len(table[1]) |-> dbg_HeaderSlot(table[1][c])])

\* extract_from_pdf: the entries one page adds; section is the file name
dbg_PageEntries(page, section) ==
    Flatten([k \in 1..Len(page.tables) |-> dbg_TableEntries(section, page.tables[k])])

\* ------------------------------------------------- filter, dedup and sort
\* a filter that lets an unresolved room through
KeepEntry_AnyRoom(d) ==
    /\ d.startTime # Unknown
    /\ d.endTime # Unknown

\* extract_timetable.__main__: the condition of the final filter
KeepEntry(d) ==
    /\ d.startTime # Unknown
    /\ d.endTime # Unknown
    /\ d.room # Unknown

\* debug_tables.__main__: the condition of the final filter
dbg_KeepEntry(x) == x.room # Unknown /\ x.startTime # Unknown

\* clean_duplicates: the key of an entry
DedupKey(entry) ==
    <<entry.section, entry.day, entry.startTime, entry.endTime,
      entry.subjectCode, entry.room>>

\* clean_duplicates: the loop, seen being the keys met so far
RECURSIVE DedupLoop(_, _)
DedupLoop(entries, seen) ==
    IF entries = <<>> THEN <<>>
    ELSE IF DedupKey(Head(entries)) \in seen THEN DedupLoop(Tail(entries), seen)
    ELSE <<Head(entries)>>
         \o DedupLoop(Tail(entries), seen \cup {DedupKey(Head(entries))})

\* a clean_duplicates that keeps every entry
clean_duplicates_KeepAll(entries) == entries

\* extract_timetable.clean_duplicates
clean_duplicates(entries) == DedupLoop(entries, {})

\* the characters of the model in code point order
CodePoints ==
    <<"\n", " ", "(", ")", ",", "-", ".", "/">> \o DigitChars \o <<":", ";">>
        \o UpperChars \o <<"_">> \o LowerChars
\* ord(c)
Ord(c) == CHOOSE i \in 1..Len(CodePoints) : CodePoints[i] = c

\* a < b, for Python strings
RECURSIVE StrLess(_, _)
StrLess(a, b) ==
    IF b = <<>> THEN FALSE
    ELSE IF a = <<>> THEN TRUE
    ELSE IF Ord(Head(a)) < Ord(Head(b)) THEN TRUE
    ELSE IF Ord(Head(a)) > Ord(Head(b)) THEN FALSE
    ELSE StrLess(Tail(a), Tail(b))

\* ["MON", "TUE", "WED", "THU", "FRI", "SAT"].index(day)
DayIndex(day) == (CHOOSE i \in 1..Len(Days) : Days[i] = day) - 1

\* extract_timetable.__main__: the sort key
SortKey(x) == <<x.section, DayIndex(x.day), time_to_minutes(x.startTime)>>

\* a < b, as Python compares the key tuples
TupleLess(a, b) ==
    \/ StrLess(a[1], b[1])
    \/ a[1] = b[1] /\ a[2] < b[2]
    \/ a[1] = b[1] /\ a[2] = b[2] /\ a[3] < b[3]

\* SortKey(x) < SortKey(y)
KeyLess(x, y) == TupleLess(SortKey(x), SortKey(y))

\* front with x put after its first k entries
InsertAt(front, x, k) == SubSeq(front, 1, k) \o <<x>> \o SubSeq(front, k + 1, Len(front))

\* the sorted front with x put after every entry whose key is not greater
Insert(front, x) ==
    InsertAt(front, x, Cardinality({i \in 1..Len(front) : ~KeyLess(x, front[i])}))

\* sorted(entries, key=SortKey): stable
RECURSIVE SortEntriesBy(_)
SortEntriesBy(entries) ==
    IF entries = <<>> THEN <<>>
    ELSE Insert(SortEntriesBy(SubSeq(entries, 1, Len(entries) - 1)),
                entries[Len(entries)])

\* extract_all: e["sourcePDF"] = filename
WithSource(e, filename) ==
    [section |-> e.section, day |-> e.day, startTime |-> e.startTime,
     endTime |-> e.endTime, subjectCode |-> e.subjectCode, room |-> e.room,
     sourcePDF |-> filename]

\* -------------------------------------------------- pages given as inputs
\* page texts
t_SectionA == <<"S", "e", "c", "t", "i", "o", "n", ":", " ", "A">>
t_CourseRanges ==
    <<"C", "o", "u", "r", "s", "e", " ", "N", "a", "m", "e", ":", " ", "M", "C",
      "A", "\n", "0", "8", ":", "0", "0", "-", "0", "8", ":", "5", "5", " ", "0",
      "8", ":", "5", "5", "-", "0", "9", ":", "5", "0", " ", "1", ":", "3", "0",
      "-", "2", ":", "2", "5">>
t_Empty == <<>>
\* header cells
h_DAY == <<"D", "A", "Y">>
h_0800_0855 == <<"0", "8", ":", "0", "0", "-", "0", "8", ":", "5", "5">>
h_0855_0950 == <<"0", "8", ":", "5", "5", "-", "0", "9", ":", "5", "0">>
h_130_225 == <<"1", ":", "3", "0", "-", "2", ":", "2", "5">>
h_0800 == <<"0", "8", ":", "0", "0">>
h_0855 == <<"0", "8", ":", "5", "5">>
h_0950 == <<"0", "9", ":", "5", "0">>
h_1045 == <<"1", "0", ":", "4", "5">>
h_2500_2600 == <<"2", "5", ":", "0", "0", "-", "2", "6", ":", "0", "0">>
h_0900_0975 == <<"0", "9", ":", "0", "0", "-", "0", "9", ":", "7", "5">>
h_I == <<"I">>
h_II == <<"I", "I">>
h_III == <<"I", "I", "I">>
h_Note == <<"N", "o", "t", "e">>
\* body cells
b_TCS501_AS_LAB3 ==
    <<"T", "C", "S", "5", "0", "1", "\n", "(", "A", "S", ")", "\n", "L", "A", "B",
      "3">>
b_TCS502_LAB4 == <<"T", "C", "S", "5", "0", "2", "\n", "L", "A", "B", "4">>
b_TCS501_LAB3 == <<"T", "C", "S", "5", "0", "1", "\n", "L", "A", "B", "3">>
b_Legend == <<"A", "S", ":", " ", "A", ".", " ", "S", "h", "a", "r", "m", "a">>
\* file name suffix
s_pdf == <<".", "p", "d", "f">>

H_range == <<h_DAY, h_0800_0855, h_0855_0950, h_130_225>>
\* the header ["DAY", "08:00", "08:55", "09:50"]
H_single == <<h_DAY, h_0800, h_0855, h_0950>>
H_bad == <<h_DAY, h_2500_2600, h_0900_0975, h_0800_0855>>
H_plain == <<h_DAY, h_I, h_II, h_III>>
Headers == {H_range, H_single, H_bad, H_plain}

\* the row ["MON", "TCS501\n(AS)\nLAB3", None, "ELECTIVE"]
R_mon == <<Word.MON, b_TCS501_AS_LAB3, None, Word.ELECTIVE>>
R_tue == <<Word.TUE, b_TCS502_LAB4, b_TCS501_LAB3, b_TCS502_LAB4>>
\* the second row of a split header
R_hdr2 == <<h_DAY, h_0855, h_0950, h_1045>>
\* the row ["WED", "TCS501\nLAB3", "", "TCS502\nLAB4"]: a free period, which the
\* table reader gives as an empty text, between two classes
R_wed == <<Word.WED, b_TCS501_LAB3, <<>>, b_TCS502_LAB4>>
Rows == {R_mon, R_tue, R_wed, R_hdr2}

\* a first table of a page that is no timetable
NoteTable == << <<h_Note, None>>, <<b_Legend, None>> >>

Bodies == UNION {[1..n -> Rows] : n \in 0..MaxRows}
Tables == {<<h>> \o b : h \in Headers, b \in Bodies}
TableLists == {<<>>} \cup {<<t>> : t \in Tables} \cup {<<NoteTable, t>> : t \in Tables}
PageTexts == {t_SectionA, t_CourseRanges, t_Empty}
Pages == {[text |-> t, tables |-> ts] : t \in PageTexts, ts \in TableLists}

\* the name of the i-th file of the folder
FileName(i) == Decimal(i) \o s_pdf

\* the pages the documents of a batch run are made of
BatchPages ==
    { [text |-> t_SectionA, tables |-> << <<H_range, R_tue, R_mon>> >>],
      [text |-> t_SectionA, tables |-> << <<H_single, R_mon>> >>],
      [text |-> t_SectionA, tables |-> << <<H_bad, R_tue>> >>],
      [text |-> t_CourseRanges, tables |-> << <<H_plain, R_mon>> >>],
      [text |-> t_SectionA, tables |-> <<NoteTable, <<H_range, R_mon>> >>],
      [text |-> t_Empty, tables |-> <<>>] }

\* ------------------------------------------- time tokens given as inputs
\* hour written as the regex \d{1,2} accepts it: "8" and "08"
HourStrs == {Decimal(h) : h \in 0..MaxHour} \cup {Format02d(h) : h \in 0..9}
\* minute written as the regex \d{2} accepts it
MinuteStrs == {<<"0", "0">>, <<"3", "0">>, <<"5", "5">>, <<"5", "9">>,
               <<"6", "0">>, <<"7", "5">>}
TimeTokens == {h \o <<":">> \o m : h \in HourStrs, m \in MinuteStrs}

\* ------------------------------------------------ cell texts given as inputs
l_TCS501 == <<"T", "C", "S", "5", "0", "1">>
l_TCS502 == <<"T", "C", "S", "5", "0", "2">>
l_DTCS503 == <<"D", "T", "C", "S", "5", "0", "3">>
l_tcs_501 == <<"t", "c", "s", " ", "5", "0", "1">>
l_LAB3 == <<"L", "A", "B", "3">>
l_LAB4 == <<"L", "A", "B", "4">>
l_AS == <<"(", "A", "S", ")">>

\* the lines a generated cell is made of; <<>> is a blank line
CellLineSet ==
    {l_TCS501, l_TCS502, l_DTCS503, l_tcs_501, Word.ELECTIVE, l_LAB3, l_LAB4, l_AS, <<>>}

\* "\n".join(ls)
RECURSIVE Join(_)
Join(ls) ==
    IF ls = <<>> THEN <<>>
    ELSE IF Len(ls) = 1 THEN ls[1]
    ELSE ls[1] \o <<"\n">> \o Join(Tail(ls))

\* the cell text "TCS501\nLAB3\n\nTCS502\nLAB4"
TwoSubjectsCell == Join(<<l_TCS501, l_LAB3, <<>>, l_TCS502, l_LAB4>>)

CellTexts ==
    {Join(ls) : ls \in UNION {[1..n -> CellLineSet] : n \in 1..MaxLines}}
        \cup {TwoSubjectsCell}

\* ----------------------------------------------- room tokens given as inputs
\* the words of the room families, in the order the spec lists them, and of
\* LOGICLAB
RoomFamilies ==
    {<<Word.LAB>>, <<Word.TCL>>, <<Word.UBUNTU, Word.LAB>>, <<Word.GCLAB>>, <<Word.CR>>,
     <<Word.LT>>, <<Word.VENUE>>, <<Word.AUDI>>, <<Word.BASEMENT>>,
     <<Word.LOGIC, Word.LAB>>}

\* what is written between the words of a family
WordGaps == {<<>>, <<" ">>}
\* what is written between the family and its numeric suffix
Separators == {<<>>, <<" ">>, <<"-">>, <<"_">>}
\* the suffixes, before the leading zeros are put in front of them
Suffixes == {<<"5">>, <<"1", "2">>}
Cases == {"upper", "lower", "title"}

\* a word in lower case, and with its first letter alone in upper case
LowerWord(w) ==
    [i \in 1..Len(w) |-> LowerChars[CHOOSE k \in 1..26 : UpperChars[k] = w[i]]]
TitleWord(w) == <<Head(w)>> \o Tail(LowerWord(w))
InCase(w, case) ==
    IF case = "upper" THEN w ELSE IF case = "lower" THEN LowerWord(w) ELSE TitleWord(w)

\* the words of a family, written in a case with gap between them
RECURSIVE Spell(_, _, _)
Spell(fam, gap, case) ==
    IF Len(fam) = 1 THEN InCase(fam[1], case)
    ELSE InCase(fam[1], case) \o gap \o Spell(Tail(fam), gap, case)

\* n zeros
Zeros(n) == [i \in 1..n |-> "0"]

RoomTokens ==
    {Spell(fam, gap, case) \o sep \o Zeros(z) \o suf :
        fam \in RoomFamilies, gap \in WordGaps, case \in Cases, sep \in Separators,
        z \in 0..MaxZeros, suf \in Suffixes}

\* a cell that holds a subject and, on the next line, a room token
RoomCell(token) == l_TCS501 \o <<"\n">> \o token
RoomCells == {RoomCell(token) : token \in RoomTokens}

\* --------------------------------------------------------- idle harnesses
IdleTime == t_pc = "idle" /\ t_in = <<>> /\ t_out = <<>> /\ t_dbg = <<>>
IdleCell == c_pc = "idle" /\ c_in = <<>> /\ c_out = <<>> /\ c_dbg = <<>>
IdlePage ==
    /\ p_pc = "idle"
    /\ p_in = [text |-> <<>>, tables |-> <<>>]
    /\ p_num = 0
    /\ p_out = <<>>
    /\ p_dbg = <<>>

\* the value extract_timetable returns: None, or a list of entries
NoneData == [is_none |-> TRUE, entries |-> <<>>]
ListData(entries) == [is_none |-> FALSE, entries |-> entries]
\* the faults met in the current document: raised when an exception left the
\* page loop, skipped when the inner handler skipped a cell, produced being
\* the entries the document had appended before the page of the first fault
NoFault == [raised |-> FALSE, skipped |-> FALSE, produced |-> <<>>]
\* the output file: not written, or the array written to it
NotWritten == [written |-> FALSE, data |-> <<>>]

IdleBatch ==
    /\ script = "none"
    /\ n_files = 0
    /\ file_idx = 0
    /\ pc = "idle"
    /\ page_num = 0
    /\ pages_read = 0
    /\ all_schedule_entries = <<>>
    /\ timetable_data = NoneData
    /\ fault = NoFault
    /\ all_extracted_data = <<>>
    /\ clean_entries = <<>>
    /\ unique_entries = <<>>
    /\ final_data = <<>>
    /\ output = NotWritten
    /\ log = <<>>

\* ------------------------------------------------ specification: one token
InitTime ==
    /\ t_pc = "in"
    /\ t_in \in TimeTokens
    /\ t_out = <<>>
    /\ t_dbg = <<>>
    /\ IdleCell /\ IdlePage /\ IdleBatch

\* one call of each revision's convert_to_24hr on the same token
Normalize ==
    /\ t_pc = "in"
    /\ t_out' = convert_to_24hr(t_in)
    /\ t_dbg' = dbg_convert_to_24hr(t_in)
    /\ t_pc' = "out"
    /\ UNCHANGED <<t_in, varsCell, varsPage, varsBatch>>

SpecTime == InitTime /\ [][Normalize]_vars

\* ------------------------------------------------- specification: one cell
InitCell ==
    /\ c_pc = "in"
    /\ c_in \in CellTexts
    /\ c_out = <<>>
    /\ c_dbg = <<>>
    /\ IdleTime /\ IdlePage /\ IdleBatch

\* one call of each revision's cell parser on the same text
ParseCell ==
    /\ c_pc = "in"
    /\ c_out' = parse_cell_content(c_in)
    /\ c_dbg' = parse_cell(c_in)
    /\ c_pc' = "out"
    /\ UNCHANGED <<c_in, varsTime, varsPage, varsBatch>>

SpecCell == InitCell /\ [][ParseCell]_vars

\* ------------------------------------------- specification: one room token
InitRoom ==
    /\ c_pc = "in"
    /\ c_in \in RoomCells
    /\ c_out = <<>>
    /\ c_dbg = <<>>
    /\ IdleTime /\ IdlePage /\ IdleBatch

SpecRoom == InitRoom /\ [][ParseCell]_vars

\* ------------------------------------------------- specification: one page
InitPage ==
    /\ p_pc = "in"
    /\ p_in \in Pages
    /\ p_num \in {0, 1}
    /\ p_out = <<>>
    /\ p_dbg = <<>>
    /\ IdleTime /\ IdleCell /\ IdleBatch

\* one pass of each revision's page loop body over the same page
DecodePage ==
    /\ p_pc = "in"
    /\ p_out' = PageEntries(p_in, p_num)
    /\ p_dbg' = dbg_PageEntries(p_in, FileName(1))
    /\ p_pc' = "out"
    /\ UNCHANGED <<p_in, p_num, varsTime, varsCell, varsBatch>>

SpecPage == InitPage /\ [][DecodePage]_vars

\* ------------------------------------------------ specification: batch run
Scripts == {"extract_timetable", "debug_tables", "extract_all"}

\* extract_timetable: what the handler of the outer try returns
FaultReturn(entries) == NoneData

\* the batch loops: the accumulator after one document's return value
Extend(scr, acc, data, filename) ==
    CASE scr = "extract_timetable" ->
            \* if timetable_data: all_extracted_data.extend(timetable_data)
            IF ~data.is_none /\ data.entries # <<>> THEN acc \o data.entries ELSE acc
      [] scr = "extract_all" ->
            \* len(None) raises TypeError, caught by the loop's handler
            IF data.is_none THEN acc
            ELSE acc \o [k \in 1..Len(data.entries) |->
                            WithSource(data.entries[k], filename)]
      [] OTHER -> acc \o data.entries

Init ==
    /\ script \in Scripts
    /\ n_files \in 0..MaxDocs
    /\ file_idx = 0
    /\ pc = "start"
    /\ page_num = 0
    /\ pages_read = 0
    /\ all_schedule_entries = <<>>
    /\ timetable_data = NoneData
    /\ fault = NoFault
    /\ all_extracted_data = <<>>
    /\ clean_entries = <<>>
    /\ unique_entries = <<>>
    /\ final_data = <<>>
    /\ output = NotWritten
    /\ log = <<>>
    /\ IdleTime /\ IdleCell /\ IdlePage

\* __main__: list the folder; extract_timetable exits with status 1 when
\* it holds no PDF file
ListPdfs ==
    /\ pc = "start"
    /\ pc' = IF script = "extract_timetable" /\ n_files = 0 THEN "exit1" ELSE "loop"
    /\ UNCHANGED <<varsTime, varsCell, varsPage>>
    /\ UNCHANGED <<script, n_files, file_idx, page_num, pages_read,
                   all_schedule_entries, timetable_data, fault, all_extracted_data,
                   clean_entries, unique_entries, final_data, output, log>>

\* the next document opens
OpenDocument ==
    /\ pc = "loop"
    /\ file_idx < n_files
    /\ pc' = "pages"
    /\ page_num' = 0
    /\ all_schedule_entries' = <<>>
    /\ fault' = NoFault
    /\ UNCHANGED <<varsTime, varsCell, varsPage>>
    /\ UNCHANGED <<script, n_files, file_idx, pages_read, timetable_data,
                   all_extracted_data, clean_entries, unique_entries, final_data,
                   output, log>>

\* the next document is missing or pdfplumber.open raises: extract_timetable
\* returns None, extract_from_pdf lets the exception through
OpenFails ==
    /\ pc = "loop"
    /\ file_idx < n_files
    /\ fault' = [raised |-> TRUE, skipped |-> FALSE, produced |-> <<>>]
    /\ IF script = "debug_tables"
       THEN pc' = "raised" /\ UNCHANGED timetable_data
       ELSE pc' = "returned" /\ timetable_data' = NoneData
    /\ UNCHANGED <<varsTime, varsCell, varsPage>>
    /\ UNCHANGED <<script, n_files, file_idx, page_num, pages_read,
                   all_schedule_entries, all_extracted_data, clean_entries,
                   unique_entries, final_data, output, log>>

\* the sets of cells of a page whose processing may raise in one pass and
\* be skipped: extract_from_pdf has no inner handler
CellFaults(scr, page) ==
    IF scr = "debug_tables" THEN {{}}
    ELSE {{}} \cup {{x} : x \in TryCells(page)}

\* one pass of the page loop
ReadPage ==
    /\ pc = "pages"
    /\ pages_read < MaxPages
    /\ \E page \in BatchPages :
          \E bad \in CellFaults(script, page) :
             /\ all_schedule_entries' = all_schedule_entries \o
                  (IF script = "debug_tables"
                   THEN dbg_PageEntries(page, FileName(file_idx + 1))
                   ELSE PageEntriesSkipping(page, page_num, bad))
             /\ fault' = IF bad = {} \/ fault.skipped THEN fault
                         ELSE [raised |-> FALSE, skipped |-> TRUE,
                               produced |-> all_schedule_entries]
    /\ page_num' = page_num + 1
    /\ pages_read' = pages_read + 1
    /\ UNCHANGED <<varsTime, varsCell, varsPage>>
    /\ UNCHANGED <<script, n_files, file_idx, pc, timetable_data,
                   all_extracted_data, clean_entries, unique_entries, final_data,
                   output, log>>

\* reading the next page raises: the outer handler of extract_timetable
\* returns, extract_from_pdf lets the exception through
PageFault ==
    /\ pc = "pages"
    /\ fault' = [raised |-> TRUE, skipped |-> fault.skipped,
                  produced |-> IF fault.skipped THEN fault.produced
                               ELSE all_schedule_entries]
    /\ IF script = "debug_tables"
       THEN pc' = "raised" /\ UNCHANGED timetable_data
       ELSE pc' = "returned" /\ timetable_data' = FaultReturn(all_schedule_entries)
    /\ UNCHANGED <<varsTime, varsCell, varsPage>>
    /\ UNCHANGED <<script, n_files, file_idx, page_num, pages_read,
                   all_schedule_entries, all_extracted_data, clean_entries,
                   unique_entries, final_data, output, log>>

\* the page loop ends: return all_schedule_entries
ReturnEntries ==
    /\ pc = "pages"
    /\ timetable_data' = ListData(all_schedule_entries)
    /\ pc' = "returned"
    /\ UNCHANGED <<varsTime, varsCell, varsPage>>
    /\ UNCHANGED <<script, n_files, file_idx, page_num, pages_read,
                   all_schedule_entries, fault, all_extracted_data, clean_entries,
                   unique_entries, final_data, output, log>>

\* the batch loop takes the return value into the accumulator
Accumulate ==
    /\ pc = "returned"
    /\ all_extracted_data' =
          Extend(script, all_extracted_data, timetable_data, FileName(file_idx + 1))
    /\ log' = Append(log, [raised |-> fault.raised, skipped |-> fault.skipped,
                           produced |-> fault.produced,
                           before |-> all_extracted_data,
                           after |-> all_extracted_data'])
    /\ file_idx' = file_idx + 1
    /\ pc' = "loop"
    /\ UNCHANGED <<varsTime, varsCell, varsPage>>
    /\ UNCHANGED <<script, n_files, page_num, pages_read, all_schedule_entries,
                   timetable_data, fault, clean_entries, unique_entries, final_data,
                   output>>

\* __main__ of extract_timetable and of debug_tables: the final filter
FilterEntries ==
    /\ pc = "loop"
    /\ file_idx = n_files
    /\ script \in {"extract_timetable", "debug_tables"}
    /\ clean_entries' = IF script = "extract_timetable"
                        THEN SelectSeq(all_extracted_data, KeepEntry)
                        ELSE SelectSeq(all_extracted_data, dbg_KeepEntry)
    /\ pc' = IF script = "extract_timetable" THEN "dedup" ELSE "write"
    /\ UNCHANGED <<varsTime, varsCell, varsPage>>
    /\ UNCHANGED <<script, n_files, file_idx, page_num, pages_read,
                   all_schedule_entries, timetable_data, fault, all_extracted_data,
                   unique_entries, final_data, output, log>>

\* extract_all: preview and summary, no file is written
Summary ==
    /\ pc = "loop"
    /\ file_idx = n_files
    /\ script = "extract_all"
    /\ pc' = "done"
    /\ UNCHANGED <<varsTime, varsCell, varsPage>>
    /\ UNCHANGED <<script, n_files, file_idx, page_num, pages_read,
                   all_schedule_entries, timetable_data, fault, all_extracted_data,
                   clean_entries, unique_entries, final_data, output, log>>

\* __main__ of extract_timetable: final_data = clean_duplicates(clean_entries)
CleanDuplicates ==
    /\ pc = "dedup"
    /\ unique_entries' = clean_duplicates(clean_entries)
    /\ pc' = "sort"
    /\ UNCHANGED <<varsTime, varsCell, varsPage>>
    /\ UNCHANGED <<script, n_files, file_idx, page_num, pages_read,
                   all_schedule_entries, timetable_data, fault, all_extracted_data,
                   clean_entries, final_data, output, log>>

\* __main__ of extract_timetable: final_data = sorted(final_data, key=...)
SortEntries ==
    /\ pc = "sort"
    /\ final_data' = SortEntriesBy(unique_entries)
    /\ pc' = "write"
    /\ UNCHANGED <<varsTime, varsCell, varsPage>>
    /\ UNCHANGED <<script, n_files, file_idx, page_num, pages_read,
                   all_schedule_entries, timetable_data, fault, all_extracted_data,
                   clean_entries, unique_entries, output, log>>

\* json.dump to the output file
WriteOutput ==
    /\ pc = "write"
    /\ output' = [written |-> TRUE,
                  data |-> IF script = "extract_timetable" THEN final_data
                           ELSE clean_entries]
    /\ pc' = "done"
    /\ UNCHANGED <<varsTime, varsCell, varsPage>>
    /\ UNCHANGED <<script, n_files, file_idx, page_num, pages_read,
                   all_schedule_entries, timetable_data, fault, all_extracted_data,
                   clean_entries, unique_entries, final_data, log>>

Next ==
    \/ ListPdfs
    \/ OpenDocument
    \/ OpenFails
    \/ ReadPage
    \/ PageFault
    \/ ReturnEntries
    \/ Accumulate
    \/ FilterEntries
    \/ Summary
    \/ CleanDuplicates
    \/ SortEntries
    \/ WriteOutput

Spec == Init /\ [][Next]_vars

\* ================================================================= claims
\* the run has ended: normally, by sys.exit(1), or by an exception
Ended == pc \in {"done", "exit1", "raised"}

\* an entry carries the unknown sentinel in room, startTime or endTime
HasUnknown(e) == e.room = Unknown \/ e.startTime = Unknown \/ e.endTime = Unknown

\* C1: no entry of the written output has room, startTime or endTime equal to
\* "Unknown": the final filter of extract_timetable and of debug_tables
\* discards every accumulated entry that carries the sentinel in one of them.
C1_NoUnknownInOutput ==
    /\ (script \in {"extract_timetable", "debug_tables"}
            /\ pc \in {"dedup", "sort", "write", "done"})
        => \A k \in 1..Len(clean_entries) : ~HasUnknown(clean_entries[k])
    /\ output.written
        => \A k \in 1..Len(output.data) : ~HasUnknown(output.data[k])

\* a finished run whose accumulator held an entry with the sentinel and whose
\* output is not empty
C1_Witness ==
    /\ pc = "done"
    /\ output.written
    /\ output.data # <<>>
    /\ \E k \in 1..Len(all_extracted_data) : HasUnknown(all_extracted_data[k])

\* t is HH:MM with 0 <= H <= 23 and 0 <= M <= 59
IsClock(t) ==
    /\ Len(t) = 5
    /\ IsDigit(t[1]) /\ IsDigit(t[2]) /\ t[3] = ":" /\ IsDigit(t[4]) /\ IsDigit(t[5])
    /\ DigitsVal(<<t[1], t[2]>>) <= 23
    /\ DigitsVal(<<t[4], t[5]>>) <= 59

\* C2: every entry of the output extract_timetable writes has startTime and
\* endTime of the form HH:MM with 0 <= H <= 23 and 0 <= M <= 59.
C2_TimesInRange ==
    (script = "extract_timetable" /\ output.written) =>
        \A k \in 1..Len(output.data) :
            IsClock(output.data[k].startTime) /\ IsClock(output.data[k].endTime)

\* hour and minute values written in a token "h:m"
TokenHour(tok) == IntVal(Split(tok, ":")[1])
TokenMinute(tok) == IntVal(Split(tok, ":")[2])

\* C3: convert_to_24hr maps a token h:m with h >= 24 or m >= 60 to the unknown
\* sentinel, and any other token to the two-digit hour (h + 12 when h < 8)
\* followed by ":" and the two-digit minute.
C3_TimeNormalization ==
    t_pc = "out" =>
        LET h == TokenHour(t_in)
            m == TokenMinute(t_in)
        IN  IF h >= 24 \/ m >= 60
            THEN t_out = Unknown
            ELSE t_out = Format02d(IF h < 8 THEN h + 12 ELSE h) \o <<":">> \o Format02d(m)

\* C4: under extract_timetable and extract_all, a document in which a fault
\* occurred after some of its entries had been produced adds nothing to the
\* accumulator and leaves the earlier entries as they were, and a run that
\* has ended has processed every document.
C4_FailureIsolation ==
    script \in {"extract_timetable", "extract_all"} =>
        /\ \A k \in 1..Len(log) :
              ((log[k].raised \/ log[k].skipped) /\ log[k].produced # <<>>)
                  => log[k].after = log[k].before
        /\ Ended => Len(log) = n_files

\* the six-field tuples that occur among entries
KeysOf(entries) == {DedupKey(entries[k]) : k \in 1..Len(entries)}
\* the number of entries with the tuple key
CountKey(entries, key) ==
    Cardinality({k \in 1..Len(entries) : DedupKey(entries[k]) = key})
\* the index of the first entry with the tuple key
FirstIndex(entries, key) ==
    CHOOSE i \in 1..Len(entries) :
        /\ DedupKey(entries[i]) = key
        /\ \A j \in 1..(i - 1) : DedupKey(entries[j]) # key

\* C5: every six-field tuple that occurs among the filtered entries occurs
\* exactly once in the output of extract_timetable, and before the sort the
\* kept entries stand in the order of their first occurrences.
C5_DedupLaw ==
    script = "extract_timetable" =>
        /\ pc \in {"sort", "write", "done"} =>
              /\ KeysOf(unique_entries) = KeysOf(clean_entries)
              /\ \A key \in KeysOf(clean_entries) : CountKey(unique_entries, key) = 1
              /\ \A i, j \in 1..Len(unique_entries) :
                    i < j => FirstIndex(clean_entries, DedupKey(unique_entries[i]))
                                < FirstIndex(clean_entries, DedupKey(unique_entries[j]))
        /\ output.written =>
              /\ KeysOf(output.data) = KeysOf(clean_entries)
              /\ \A key \in KeysOf(clean_entries) : CountKey(output.data, key) = 1

\* a finished run of extract_timetable whose filtered entries repeat a tuple
\* and hold more than one tuple
C5_Witness ==
    /\ script = "extract_timetable"
    /\ pc = "done"
    /\ output.written
    /\ Len(clean_entries) > Len(unique_entries)
    /\ Len(unique_entries) > 1

\* the minutes since midnight the string h:m denotes
ClockMinutes(t) == (IntVal(Split(t, ":")[1]) * 60) + IntVal(Split(t, ":")[2])

\* (section, dayIndex(day), minutes(startTime)) of a is greater than that of b
KeyAfter(a, b) ==
    \/ StrLess(b.section, a.section)
    \/ a.section = b.section /\ DayIndex(a.day) > DayIndex(b.day)
    \/ a.section = b.section /\ DayIndex(a.day) = DayIndex(b.day)
          /\ ClockMinutes(a.startTime) > ClockMinutes(b.startTime)

\* C6: consecutive entries of the output of extract_timetable are in
\* non-decreasing order of (section, dayIndex(day), minutes(startTime)),
\* minutes being the minutes since midnight the start time denotes.
C6_SortLaw ==
    (script = "extract_timetable" /\ output.written) =>
        \A k \in 1..(Len(output.data) - 1) :
            ~KeyAfter(output.data[k], output.data[k + 1])

\* C7: a run of extract_timetable or debug_tables over at least one document
\* in which no document adds an entry does not raise: it ends normally with
\* the empty array written.
C7_EmptyRunCompletes ==
    (script \in {"extract_timetable", "debug_tables"} /\ n_files >= 1
        /\ Ended /\ all_extracted_data = <<>>)
    => (pc = "done" /\ output = [written |-> TRUE, data |-> <<>>])

\* the page holds one table, with the header ["DAY","08:00","08:55","09:50"]
\* and no second header row
SingleTokenPage ==
    /\ Len(p_in.tables) = 1
    /\ p_in.tables[1][1] = H_single
    /\ \A k \in 2..Len(p_in.tables[1]) : p_in.tables[1][k] # R_hdr2

\* start and end are the times of an anchor and of the anchor after it
AnchorTimes(e) ==
    \E i \in 2..Len(H_single) :
        /\ e.startTime = convert_to_24hr(H_single[i])
        /\ i < Len(H_single) => e.endTime = convert_to_24hr(H_single[i + 1])

\* C8: under a header of single-token anchors every entry starts at the time
\* of its anchor and ends at the time of the next anchor, and the row
\* ["MON", "TCS501\n(AS)\nLAB3", None, "ELECTIVE"] leaves exactly the final
\* entry MON 08:00-08:55 TCS501 LAB3, in extract_timetable and in debug_tables.
C8_SingleTokenAnchors ==
    (p_pc = "out" /\ SingleTokenPage) =>
        /\ \A k \in 1..Len(p_out) : AnchorTimes(p_out[k])
        /\ p_in.tables[1] = <<H_single, R_mon>> =>
              /\ SelectSeq(p_out, KeepEntry) =
                    <<[section |-> PageSection(p_in.text, p_num), day |-> Word.MON,
                       startTime |-> h_0800, endTime |-> h_0855,
                       subjectCode |-> l_TCS501, room |-> l_LAB3]>>
              /\ SelectSeq(p_dbg, dbg_KeepEntry) =
                    <<[section |-> FileName(1), day |-> Word.MON,
                       startTime |-> h_0800, endTime |-> h_0855,
                       subjectCode |-> l_TCS501, room |-> l_LAB3]>>

\* subjects and rooms the patterns find on one line, canonical form
SubjectsOn(line) == Canonical(line, subject_pattern, TRUE)
RoomsOn(line) == Canonical(line, room_pattern, TRUE)

\* the specific subject codes of a block: prefix of the closed set + 3-4 digits
SpecificCodesIn(content) ==
    LET lines == CellLines(content)
    IN  UNION {
            LET ms == FindAll(lines[k], subject_pattern, TRUE, TRUE, TRUE)
            IN  {RemoveChar(Upper(Group0(lines[k], ms[j])), " ") :
                    j \in {x \in 1..Len(ms) : ms[x].alt <= Len(subj_prefixes)}}
            : k \in 1..Len(lines)}

GenericKeywords == {Word.ELECTIVE, Word.CEC, Word.PROJECTBASEDLEARNING}
EmittedSubjects(entries) == {entries[k].subjectCode : k \in 1..Len(entries)}

\* C9: when a block holds at least one specific subject code, parse_cell_content
\* emits no generic keyword for it and emits every distinct specific code.
C9_SpecificPriority ==
    (c_pc = "out" /\ SpecificCodesIn(c_in) # {}) =>
        /\ EmittedSubjects(c_out) \cap GenericKeywords = {}
        /\ SpecificCodesIn(c_in) \subseteq EmittedSubjects(c_out)

\* a short parenthesized alphanumeric line that is neither subject nor room
IsMetaLine(line) ==
    /\ Len(line) >= 3
    /\ Head(line) = "("
    /\ line[Len(line)] = ")"
    /\ \A i \in 2..(Len(line) - 1) : IsDigit(line[i]) \/ IsLetter(line[i])
    /\ SubjectsOn(line) = <<>>
    /\ RoomsOn(line) = <<>>

\* the room bound to the subject of line i: the room of line i+1, or of line
\* i+2 behind a metadata line, or the unknown sentinel
BoundRoom(lines, i) ==
    IF i + 1 <= Len(lines) /\ RoomsOn(lines[i + 1]) # <<>>
    THEN RoomsOn(lines[i + 1])[1]
    ELSE IF i + 2 <= Len(lines) /\ IsMetaLine(lines[i + 1])
            /\ RoomsOn(lines[i + 2]) # <<>>
    THEN RoomsOn(lines[i + 2])[1]
    ELSE Unknown

\* the first line of the block on which the subject occurs
SubjectLine(lines, subject) ==
    CHOOSE i \in 1..Len(lines) :
        /\ \E j \in 1..Len(SubjectsOn(lines[i])) : SubjectsOn(lines[i])[j] = subject
        /\ \A h \in 1..(i - 1) :
              \A j \in 1..Len(SubjectsOn(lines[h])) : SubjectsOn(lines[h])[j] # subject

\* C10: every subject parse_cell_content emits is paired with the room found
\* on the line after its own line (or two lines after, behind a metadata
\* line), and with the unknown sentinel when there is none.
C10_RoomBinding ==
    c_pc = "out" =>
        \A k \in 1..Len(c_out) :
            c_out[k].room =
                BoundRoom(CellLines(c_in), SubjectLine(CellLines(c_in), c_out[k].subjectCode))

\* the scenario "TCS501\nLAB3\n\nTCS502\nLAB4" gives TCS501-LAB3, TCS502-LAB4
TwoSubjectsScenario ==
    (c_pc = "out" /\ c_in = TwoSubjectsCell) =>
        c_out = <<[subjectCode |-> l_TCS501, room |-> l_LAB3],
                  [subjectCode |-> l_TCS502, room |-> l_LAB4]>>

\* the room token of a cell made by RoomCell
TokenOf(cell) == SubSeq(cell, Len(l_TCS501) + 2, Len(cell))

\* a digit sequence without its leading zeros
RECURSIVE StripZeros(_)
StripZeros(d) == IF Len(d) > 1 /\ Head(d) = "0" THEN StripZeros(Tail(d)) ELSE d

\* the room id of a token whose letters and digits are key: the family
\* followed by the suffix without leading zeros, and for LOGICLAB by the
\* digit sequence as it is written
RoomIdOf(key, n) ==
    IF SubSeq(key, 1, n) = Word.LOGICLAB THEN key
    ELSE SubSeq(key, 1, n) \o StripZeros(SubSeq(key, n + 1, Len(key)))

\* the normalized room id of a token
ExpectedRoom(token) ==
    RoomIdOf(RoomKey(token), RunLen(RoomKey(token), 1, "letter", Many))

\* C11: a room token of a known family, in any case, with spaces, hyphens or
\* underscores and with leading zeros in its suffix, gives entries whose room
\* is the uppercase family followed by the suffix without leading zeros; a
\* LOGICLAB token gives "LOGICLAB" followed by its digit sequence.  Every
\* entry of parse_cell_content and of parse_cell that carries a room is held
\* to it.
C11_RoomNormalization ==
    c_pc = "out" =>
        /\ \A k \in 1..Len(c_out) :
              c_out[k].room # Unknown => c_out[k].room = ExpectedRoom(TokenOf(c_in))
        /\ \A k \in 1..Len(c_dbg) :
              c_dbg[k].room # Unknown => c_dbg[k].room = ExpectedRoom(TokenOf(c_in))

\* the members of a sequence
Members(seq) == {seq[k] : k \in 1..Len(seq)}

\* the tables of a page that have a header row and at least one body row
FullTables(page) == {j \in 1..Len(page.tables) : Len(page.tables[j]) >= 2}

\* what extract_timetable's row loop decodes from the j-th table of a page
DecodableFrom(page, page_no, j) ==
    TableEntries(PageSection(page.text, page_no), page.tables[j],
                 ColTimeMap(page.tables[j], page.text), {})

\* C12: every table of a page that has a header row and at least one body
\* row contributes the entries decodable from it to the entries of the
\* document, whatever its position among the tables of the page; held for
\* the page loop of extract_timetable and for that of extract_from_pdf.
C12_EveryTableProcessed ==
    p_pc = "out" =>
        \A j \in FullTables(p_in) :
            /\ Members(DecodableFrom(p_in, p_num, j)) \subseteq Members(p_out)
            /\ Members(dbg_TableEntries(FileName(1), p_in.tables[j]))
                   \subseteq Members(p_dbg)

\* the number of null cells that directly follow column c of a row
RECURSIVE NullRun(_, _)
NullRun(row, n) ==
    IF n <= Len(row) /\ row[n] = None THEN 1 + NullRun(row, n + 1) ELSE 0

\* a body cell that holds text
Occupied(cell) == Truthy(cell) /\ Strip(cell) # <<>>

\* the entries of the occupied cell in column c that is followed by k null
\* cells: from the start of column c to the end of column c + k
MergedEntries(section, day, row, c, k, map) ==
    Timed(section, day, MapGet(map, c)[1], MapGet(map, c + k)[2],
          parse_cell_content(row[c]))

\* the entries of a body row whose day is known: none from a cell that is
\* not occupied, those of the merged range from an occupied one
MergedRow(section, day, row, map) ==
    IF day = NoDay THEN <<>>
    ELSE Flatten([i \in 1..(Len(row) - 1) |->
                    IF Occupied(row[i + 1])
                    THEN MergedEntries(section, day, row, i + 1,
                                       NullRun(row, i + 2), map)
                    ELSE <<>>])

\* the entries of the body rows of a table under the merged-cell rule
MergedTable(section, table, map) ==
    Flatten([k \in 1..(Len(table) - 1) |->
                IF table[k + 1] = <<>> THEN <<>>
                ELSE MergedRow(section, DayOf(Upper(OrEmpty(table[k + 1][1]))),
                               table[k + 1], map)])

\* C13: in every body row an occupied cell in column c that is directly
\* followed by k >= 1 null cells gives entries from the start time of column
\* c to the end time of column c + k, an occupied cell that no null cell
\* follows gives entries with the start and end time of column c, and the
\* other cells give no entry.
C13_MergedCellRange ==
    (p_pc = "out" /\ p_in.tables # <<>> /\ Len(p_in.tables[1]) >= 2) =>
        p_out = MergedTable(PageSection(p_in.text, p_num), p_in.tables[1],
                            ColTimeMap(p_in.tables[1], p_in.text))

====
